---- MODULE Spec2Model ----
(***************************************************************************)
(* RSSBot (src/bot.py): the Redis subscription store, the /sub, /del and  *)
(* /rss command handlers and the poll cycle (run_job / check_feed), as the *)
(* job queue and as /sync start it.                                        *)
(*                                                                         *)
(* Redis keys:   pythonbot:rss:<chat>            set of feed urls          *)
(*               pythonbot:rss:<feed>:subs       set of chat ids           *)
(*               pythonbot:rss:<feed>:last_entry string (the Marker)       *)
(* A Redis set key exists iff the set is non-empty, so a set-valued key is *)
(* modelled by its member set and "absent" is the empty set.               *)
(***************************************************************************)
EXTENDS Integers, Sequences, FiniteSets, TLC

VARIABLES
    chatFeeds,   \* [chat -> set of feeds]      key feed_hash.format(chat_id)
    feedSubs,    \* [feed -> set of chats]      key feed_hash.format(url + ":subs")
    lastEntry,   \* [feed -> identifier | None] key feed_hash.format(url + ":last_entry")
    feedLo,      \* [feed -> Nat] entries 1..feedLo[f] have dropped out of the feed document
    feedHi,      \* [feed -> Nat] entries published so far (entry feedHi[f] is the newest)
    cmd,         \* the command handler in flight (subscribe / unsubscribe), or idle
    cyc,         \* [slot -> check_feed task]: slot f holds the task the scheduled
                 \*          run_job started for feed f, slot SyncSlot[f] the task a
                 \*          /sync started for it
    tick,        \* bookkeeping of the current run_job: keys snapshot, fetched and failed feeds
    fresh,       \* [feed -> the last subscription made while the feed had no Marker, until
                 \*          the next check_feed of the feed returns]
    dead,        \* the chat ids the transport has reported as migrated away
    listing,     \* the last answer of /rss: the chat, the feeds in the order shown and
                 \*          the store as /rss found it
    hist         \* the log of all sendMessage calls of check_feed, where one is kept

vars == <<chatFeeds, feedSubs, lastEntry, feedLo, feedHi, cmd, cyc, tick, fresh, dead,
          listing, hist>>
store == <<chatFeeds, feedSubs, lastEntry>>

----------------------------------------------------------------------------
(* Bounds and input sets *)

\* The number of entries feed f1 publishes in a run of Spec (the store-centred
\* specification) and of SpecDiff (the single-feed specification).
MaxPosts == 2
MaxEntries == 3

Feeds == {"f1", "f2"}

\* c1 is a group that can be migrated to the supergroup c1m; c2 is a private chat.
Chats == {"c1", "c2", "c1m"}

\* ChatMigrated.new_chat_id: the id the transport reports for a migrated group.
NewChatId == [c \in {"c1"} |-> "c1m"]

\* Arguments of /sub: two urls of feed f1 (one redirects to the canonical url),
\* one url of feed f2, and a string that is not an url.
Urls == {"f1", "f1-moved", "f2", "junk"}

LooksLikeUrl(u) == u # "junk"

\* data.href: the url after following all redirects.
Href(u) == IF u = "f1-moved" THEN "f1" ELSE u

\* Arguments of /del.
Positions == 0 .. (Cardinality(Feeds) + 1)

None == <<"none", 0>>

Outcomes == {"Success", "Unauthorized", "Migrated", "TimedOut", "BadRequest"}

\* The check_feed tasks that can be in flight for one feed: the one of the
\* scheduled run_job and the one of a run_job_manually (/sync).
SyncSlot == [f \in Feeds |-> IF f = "f1" THEN "f1/sync" ELSE "f2/sync"]
Slots == Feeds \cup {SyncSlot[f] : f \in Feeds}

\* feed_url of a task: the feed named by the key it was started with.
FeedOf(s) == IF s \in Feeds THEN s ELSE CHOOSE f \in Feeds : SyncSlot[f] = s

----------------------------------------------------------------------------
(* Feed documents.  Entry n of a feed is the n-th entry it published; odd  *)
(* entries carry an id, even entries carry only a link.                    *)

Entry(n) ==
    IF n % 2 = 1 THEN [num |-> n, id |-> <<"id", n>>, link |-> <<"link", n>>]
                 ELSE [num |-> n, link |-> <<"link", n>>]

\* data.entries, newest first: entries hi, hi-1, ..., lo+1.
EntriesOf(lo, hi) == [k \in 1 .. (hi - lo) |-> Entry(hi + 1 - k)]

Reverse(s) == [k \in 1 .. Len(s) |-> s[Len(s) + 1 - k]]

SetMin(S) == CHOOSE x \in S : \A y \in S : x <= y

----------------------------------------------------------------------------
(* Pure helpers *)

\* The identifier of an entry: its id, or its link when it has no id.
Identifier(e) == IF "id" \notin DOMAIN e THEN e.link ELSE e.id

\* utils.get_new_entries(entries, last_entry): the entries that precede the
\* first entry whose identifier equals the Marker; none when nothing matches.
GetNewEntries(entries, last) ==
    LET hits == {k \in 1 .. Len(entries) : Identifier(entries[k]) = last}
    IN  IF hits = {} THEN <<>> ELSE SubSeq(entries, 1, SetMin(hits) - 1)

\* r.keys(feed_hash.format("*:subs")): the feeds whose subscriber set exists.
SubsKeys == {f \in Feeds : feedSubs[f] # {}}

----------------------------------------------------------------------------
(* Process records *)

NoChat == "none"
NoFeed == "none"

\* url is the argument of /sub and href the url it resolved to; valid says that
\* the handler got past its argument checks; pre is the store as the handler
\* found it.
IdleCmd ==
    [pc |-> "idle", op |-> "none", chat |-> NoChat, url |-> NoFeed, href |-> NoFeed,
     n |-> 0, valid |-> FALSE, entries |-> <<>>, subs |-> {}, cold |-> FALSE,
     reply |-> "none", pre |-> <<>>]

\* sent, unauth and mig record what the task has done so far: every sendMessage
\* call <<recipient, entry number, "first" | "retry">>; for every Send that
\* raised Unauthorized, <<chat, whether it was the feed's only subscriber>>;
\* for every Send that raised ChatMigrated, <<chat, entry number>>.
IdleCyc ==
    [pc |-> "idle", entries |-> <<>>, last |-> None, new |-> <<>>, k |-> 0,
     todo |-> {}, member |-> NoChat, sent |-> <<>>, unauth |-> {}, mig |-> {}]

IdleTick == [keys |-> {}, fetched |-> {}, failed |-> {}]

NoFresh == [chat |-> NoChat, entries |-> <<>>]

NoListing == [chat |-> NoChat, shown |-> <<>>, pre |-> <<>>]

\* log holds <<chat, feed, entry number>> for every sendMessage call so far,
\* twice those made more than once; nothing is logged unless on.
NoHist == [on |-> FALSE, log |-> {}, twice |-> {}]

Logged(h, x) ==
    IF h.on THEN [h EXCEPT !.log = @ \cup {x},
                           !.twice = IF x \in h.log THEN @ \cup {x} ELSE @]
    ELSE h

\* No command handler and no check_feed task is running.
Quiet == cmd.pc = "idle" /\ \A s \in Slots : cyc[s].pc = "idle"

\* The state after start-up, but for the log.
Start ==
    /\ chatFeeds = [c \in Chats |-> {}]
    /\ feedSubs = [f \in Feeds |-> {}]
    /\ lastEntry = [f \in Feeds |-> None]
    /\ feedLo = [f \in Feeds |-> 0]
    /\ feedHi = [f \in Feeds |-> 0]
    /\ cmd = IdleCmd
    /\ cyc = [s \in Slots |-> IdleCyc]
    /\ tick = IdleTick
    /\ fresh = [f \in Feeds |-> NoFresh]
    /\ dead = {}
    /\ listing = NoListing

Init == Start /\ hist = NoHist

\* The same, with every sendMessage call logged from now on.
InitLogged == Start /\ hist = [NoHist EXCEPT !.on = TRUE]

----------------------------------------------------------------------------
(* The outside world: a feed publishes an entry, or drops its oldest one.  *)

PublishEntry(f, max) ==
    /\ feedHi[f] < max
    /\ feedHi' = [feedHi EXCEPT ![f] = @ + 1]
    /\ UNCHANGED <<store, feedLo, cmd, cyc, tick, fresh, dead, listing, hist>>

TrimFeed(f) ==
    /\ feedLo[f] < feedHi[f]
    /\ feedLo' = [feedLo EXCEPT ![f] = @ + 1]
    /\ UNCHANGED <<store, feedHi, cmd, cyc, tick, fresh, dead, listing, hist>>

\* The feed drops its oldest entry, which is not the one the Marker names.
TrimOlder(f) ==
    /\ Identifier(Entry(feedLo[f] + 1)) # lastEntry[f]
    /\ TrimFeed(f)

----------------------------------------------------------------------------
(* /sub <url> [chat]  -- subscribe(update, context)                        *)

NoArg == "noarg"
Preludes == {"ok", "denied", "nochannel", "notadmin"}

\* Lines 158-184: the checks made before the feed is fetched.  A group that
\* the transport has reported as migrated no longer exists under its old id,
\* so no command arrives from it.
SubscribeStart(c, arg, p) ==
    /\ cmd.pc = "idle"
    /\ c \notin dead
    /\ LET reply == IF p = "denied" THEN "Ignored"
                    ELSE IF arg = NoArg THEN "NoUrl"
                    ELSE IF ~LooksLikeUrl(arg) THEN "InvalidUrl"
                    ELSE IF p = "nochannel" THEN "NoChannel"
                    ELSE IF p = "notadmin" THEN "NotAdmin"
                    ELSE "none"
       IN  cmd' = [IdleCmd EXCEPT !.op = "sub", !.chat = c, !.url = arg,
                       !.valid = (reply = "none"),
                       !.pc = IF reply = "none" THEN "parse" ELSE "done",
                       !.reply = reply, !.pre = store]
    /\ UNCHANGED <<store, feedLo, feedHi, cyc, tick, fresh, dead, listing, hist>>

\* Lines 185-189: feedparser.parse(feed_url); no feed link -> "Not a valid feed".
SubscribeParse(ok) ==
    /\ cmd.op = "sub" /\ cmd.pc = "parse"
    /\ cmd' = IF ok
              THEN [cmd EXCEPT !.pc = "sismember", !.href = Href(cmd.url),
                        !.entries = EntriesOf(feedLo[Href(cmd.url)], feedHi[Href(cmd.url)])]
              ELSE [cmd EXCEPT !.pc = "done", !.reply = "InvalidFeed"]
    /\ UNCHANGED <<store, feedLo, feedHi, cyc, tick, fresh, dead, listing, hist>>

\* Mutant: the membership test made with the url as typed, not data.href.
AlreadySubscribedRawUrl(c, f) == cmd.url \in chatFeeds[c]

\* Lines 190-192: r.sismember(chat key, feed_url).
AlreadySubscribed(c, f) == f \in chatFeeds[c]

SubscribeIsMember ==
    /\ cmd.op = "sub" /\ cmd.pc = "sismember"
    /\ cmd' = IF AlreadySubscribed(cmd.chat, cmd.href)
              THEN [cmd EXCEPT !.pc = "done", !.reply = "AlreadySubscribed"]
              ELSE [cmd EXCEPT !.pc = "exists"]
    /\ UNCHANGED <<store, feedLo, feedHi, cyc, tick, fresh, dead, listing, hist>>

\* Mutant: the Marker stored by every subscription, not only the first.
SubscribeExistsAlwaysSeeds ==
    /\ cmd.op = "sub" /\ cmd.pc = "exists"
    /\ cmd' = [cmd EXCEPT !.cold = (lastEntry[cmd.href] = None),
                           !.pc = IF cmd.entries # <<>> THEN "set" ELSE "sadd_subs"]
    /\ UNCHANGED <<store, feedLo, feedHi, cyc, tick, fresh, dead, listing, hist>>

\* Lines 200-202: if data.entries: if not r.exists(last_entry_hash).
SubscribeExists ==
    /\ cmd.op = "sub" /\ cmd.pc = "exists"
    /\ cmd' = [cmd EXCEPT !.cold = (lastEntry[cmd.href] = None),
                           !.pc = IF cmd.entries # <<>> /\ lastEntry[cmd.href] = None
                                  THEN "set" ELSE "sadd_subs"]
    /\ UNCHANGED <<store, feedLo, feedHi, cyc, tick, fresh, dead, listing, hist>>

\* Mutant: the Marker taken from data.entries[-1].
SeedMarkerOldest(entries) == Identifier(entries[Len(entries)])

\* Lines 203-206: the Marker a first subscription stores.
SeedMarker(entries) == Identifier(entries[1])

\* Line 207: r.set(last_entry_hash, last_entry).
SubscribeSet ==
    /\ cmd.op = "sub" /\ cmd.pc = "set"
    /\ lastEntry' = [lastEntry EXCEPT ![cmd.href] = SeedMarker(cmd.entries)]
    /\ cmd' = [cmd EXCEPT !.pc = "sadd_subs"]
    /\ UNCHANGED <<chatFeeds, feedSubs, feedLo, feedHi, cyc, tick, fresh, dead, listing, hist>>

\* Line 209: r.sadd(feed_url + ":subs", chat_id).
SubscribeAddSub ==
    /\ cmd.op = "sub" /\ cmd.pc = "sadd_subs"
    /\ feedSubs' = [feedSubs EXCEPT ![cmd.href] = @ \cup {cmd.chat}]
    /\ cmd' = [cmd EXCEPT !.pc = "sadd_chat"]
    /\ UNCHANGED <<chatFeeds, lastEntry, feedLo, feedHi, cyc, tick, fresh, dead, listing, hist>>

\* Lines 210-214: r.sadd(chat_id, feed_url); reply "added".
SubscribeAddFeed ==
    /\ cmd.op = "sub" /\ cmd.pc = "sadd_chat"
    /\ chatFeeds' = [chatFeeds EXCEPT ![cmd.chat] = @ \cup {cmd.href}]
    /\ cmd' = [cmd EXCEPT !.pc = "done", !.reply = "Created"]
    /\ fresh' = IF cmd.cold
                THEN [fresh EXCEPT ![cmd.href] = [chat |-> cmd.chat, entries |-> cmd.entries]]
                ELSE fresh
    /\ UNCHANGED <<feedSubs, lastEntry, feedLo, feedHi, cyc, tick, dead, listing, hist>>

\* The handler returns.
CmdReturn ==
    /\ cmd.pc = "done"
    /\ cmd' = IdleCmd
    /\ UNCHANGED <<store, feedLo, feedHi, cyc, tick, fresh, dead, listing, hist>>

----------------------------------------------------------------------------
(* /del <n> [chat]  -- unsubscribe(update, context)                        *)

\* Arguments of /del: an integer, a word that is not one, or nothing.
DelArgs == {<<"int", n>> : n \in Positions} \cup {<<"text", 0>>, <<"missing", 0>>}

\* Lines 219-241: the checks made before the store is read.
UnsubscribeStart(c, arg, p) ==
    /\ cmd.pc = "idle"
    /\ c \notin dead
    /\ LET reply == IF p = "denied" THEN "Ignored"
                    ELSE IF arg[1] = "missing" THEN "NoNumber"
                    ELSE IF p = "nochannel" THEN "NoChannel"
                    ELSE IF arg[1] = "text" THEN "NoNumber"
                    ELSE "none"
       IN  cmd' = [IdleCmd EXCEPT !.op = "del", !.chat = c, !.n = arg[2],
                       !.valid = (reply = "none"),
                       !.pc = IF reply = "none" THEN "smembers" ELSE "done",
                       !.reply = reply, !.pre = store]
    /\ UNCHANGED <<store, feedLo, feedHi, cyc, tick, fresh, dead, listing, hist>>

\* list(subs): the orders in which a set can be enumerated.
Enumerations(S) ==
    {q \in [1 .. Cardinality(S) -> S] : \A x \in S : \E k \in DOMAIN q : q[k] = x}

\* Mutant: the range check without its lower bound.
RangeErrorNoLower(n, subs) == IF n > Cardinality(subs) THEN "TooHigh" ELSE "none"

\* Lines 245-250: the range check on n; "none" when n is in range.
RangeError(n, subs) ==
    IF n < 1 THEN "NotPositive"
    ELSE IF n > Cardinality(subs) THEN "TooHigh"
    ELSE "none"

\* q[i] for a Python list q and a Python index i: a negative index counts from
\* the end, an index outside the list raises IndexError.
IndexError == "IndexError"
ListItem(q, i) ==
    IF 0 <= i /\ i < Len(q) THEN q[i + 1]
    ELSE IF -Len(q) <= i /\ i < 0 THEN q[Len(q) + i + 1]
    ELSE IndexError

\* Lines 243-252: subs = r.smembers(chat_hash); feed_url = list(subs)[n - 1].
UnsubscribeMembers ==
    /\ cmd.op = "del" /\ cmd.pc = "smembers"
    /\ LET subs == chatFeeds[cmd.chat]
           err == RangeError(cmd.n, subs)
       IN  IF err # "none"
           THEN cmd' = [cmd EXCEPT !.pc = "done", !.reply = err, !.subs = subs]
           ELSE \E q \in Enumerations(subs) :
                    LET feed_url == ListItem(q, cmd.n - 1)
                    IN  cmd' = IF feed_url = IndexError
                               THEN [cmd EXCEPT !.pc = "done", !.reply = "Raised", !.subs = subs]
                               ELSE [cmd EXCEPT !.pc = "srem_chat", !.url = feed_url,
                                                !.subs = subs]
    /\ UNCHANGED <<store, feedLo, feedHi, cyc, tick, fresh, dead, listing, hist>>

\* Line 254: r.srem(chat_hash, feed_url).
UnsubscribeRemFeed ==
    /\ cmd.op = "del" /\ cmd.pc = "srem_chat"
    /\ chatFeeds' = [chatFeeds EXCEPT ![cmd.chat] = @ \ {cmd.url}]
    /\ cmd' = [cmd EXCEPT !.pc = "srem_subs"]
    /\ fresh' = IF fresh[cmd.url].chat = cmd.chat THEN [fresh EXCEPT ![cmd.url] = NoFresh]
                ELSE fresh
    /\ UNCHANGED <<feedSubs, lastEntry, feedLo, feedHi, cyc, tick, dead, listing, hist>>

\* Mutant: the chat removed from the subscriber set of every feed.
UnsubscribeRemSubEverywhere ==
    /\ cmd.op = "del" /\ cmd.pc = "srem_subs"
    /\ feedSubs' = [f \in Feeds |-> feedSubs[f] \ {cmd.chat}]
    /\ cmd' = [cmd EXCEPT !.pc = "smembers2"]
    /\ UNCHANGED <<chatFeeds, lastEntry, feedLo, feedHi, cyc, tick, fresh, dead, listing, hist>>

\* Line 255: r.srem(sub_hash, chat_id).
UnsubscribeRemSub ==
    /\ cmd.op = "del" /\ cmd.pc = "srem_subs"
    /\ feedSubs' = [feedSubs EXCEPT ![cmd.url] = @ \ {cmd.chat}]
    /\ cmd' = [cmd EXCEPT !.pc = "smembers2"]
    /\ UNCHANGED <<chatFeeds, lastEntry, feedLo, feedHi, cyc, tick, fresh, dead, listing, hist>>

\* Line 256: if not r.smembers(sub_hash).
UnsubscribeCheckEmpty ==
    /\ cmd.op = "del" /\ cmd.pc = "smembers2"
    /\ cmd' = IF feedSubs[cmd.url] = {}
              THEN [cmd EXCEPT !.pc = "delete"]
              ELSE [cmd EXCEPT !.pc = "done", !.reply = "Removed"]
    /\ UNCHANGED <<store, feedLo, feedHi, cyc, tick, fresh, dead, listing, hist>>

\* Lines 257-262: r.delete(last_entry key); reply "removed".
UnsubscribeDelete ==
    /\ cmd.op = "del" /\ cmd.pc = "delete"
    /\ lastEntry' = [lastEntry EXCEPT ![cmd.url] = None]
    /\ cmd' = [cmd EXCEPT !.pc = "done", !.reply = "Removed"]
    /\ UNCHANGED <<chatFeeds, feedSubs, feedLo, feedHi, cyc, tick, fresh, dead, listing, hist>>

----------------------------------------------------------------------------
(* /rss [chat]  -- list_feeds(update, context)                             *)

\* Lines 124-140: the checks made before the store is read.
ListStart(c, p) ==
    /\ cmd.pc = "idle"
    /\ c \notin dead
    /\ LET reply == IF p = "denied" THEN "Ignored"
                    ELSE IF p = "nochannel" THEN "NoChannel"
                    ELSE "none"
       IN  cmd' = [IdleCmd EXCEPT !.op = "list", !.chat = c,
                       !.valid = (reply = "none"),
                       !.pc = IF reply = "none" THEN "smembers" ELSE "done",
                       !.reply = reply, !.pre = store]
    /\ UNCHANGED <<store, feedLo, feedHi, cyc, tick, fresh, dead, listing, hist>>

\* Lines 142-153: subs = r.smembers(chat key); for n, feed in enumerate(subs):
\* the answer shows feed as number n + 1.
ListMembers ==
    /\ cmd.op = "list" /\ cmd.pc = "smembers"
    /\ LET subs == chatFeeds[cmd.chat]
       IN  \E q \in Enumerations(subs) :
               /\ listing' = [chat |-> cmd.chat, shown |-> q, pre |-> store]
               /\ cmd' = [cmd EXCEPT !.pc = "done", !.subs = subs,
                              !.reply = IF subs = {} THEN "NoFeeds" ELSE "Listed"]
    /\ UNCHANGED <<store, feedLo, feedHi, cyc, tick, fresh, dead, hist>>

----------------------------------------------------------------------------
(* run_job(context), run_job_manually and check_feed(bot, key)             *)

\* Lines 359-363: keys = r.keys("*:subs"); one check_feed task per key.
RunJob ==
    /\ \A f \in Feeds : cyc[f].pc = "idle"
    /\ cyc' = [s \in Slots |-> IF s \in SubsKeys THEN [IdleCyc EXCEPT !.pc = "fetch"]
                                                 ELSE cyc[s]]
    /\ tick' = [keys |-> SubsKeys, fetched |-> {}, failed |-> {}]
    /\ UNCHANGED <<store, feedLo, feedHi, cmd, fresh, dead, listing, hist>>

\* Lines 366-367 and 393: /sync calls run_job, whatever the scheduled run_job
\* is doing.
RunJobManually ==
    /\ \A f \in Feeds : cyc[SyncSlot[f]].pc = "idle"
    /\ SubsKeys # {}
    /\ cyc' = [s \in Slots |-> IF s \notin Feeds /\ FeedOf(s) \in SubsKeys
                               THEN [IdleCyc EXCEPT !.pc = "fetch"]
                               ELSE cyc[s]]
    /\ UNCHANGED <<store, feedLo, feedHi, cmd, tick, fresh, dead, listing, hist>>

\* Mutant: a failed fetch ends the whole run_job; the tasks not yet begun never run.
CheckFeedFetchAbortsJob(s, ok) ==
    /\ cyc[s].pc = "fetch"
    /\ IF ok
       THEN /\ cyc' = [cyc EXCEPT ![s].pc = "get",
                          ![s].entries = EntriesOf(feedLo[FeedOf(s)], feedHi[FeedOf(s)])]
            /\ tick' = IF s \in Feeds THEN [tick EXCEPT !.fetched = @ \cup {s}] ELSE tick
       ELSE /\ cyc' = [g \in Slots |-> IF g = s THEN [cyc[s] EXCEPT !.pc = "failed"]
                                       ELSE IF cyc[g].pc = "fetch" THEN IdleCyc
                                       ELSE cyc[g]]
            /\ tick' = IF s \in Feeds
                       THEN [tick EXCEPT !.fetched = @ \cup {s}, !.failed = @ \cup {s}]
                       ELSE tick
    /\ UNCHANGED <<store, feedLo, feedHi, cmd, fresh, dead, listing, hist>>

\* Mutant: a failed fetch drops the feed's Marker.
CheckFeedFetchDropsMarker(s, ok) ==
    /\ cyc[s].pc = "fetch"
    /\ IF ok
       THEN /\ cyc' = [cyc EXCEPT ![s].pc = "get",
                          ![s].entries = EntriesOf(feedLo[FeedOf(s)], feedHi[FeedOf(s)])]
            /\ tick' = IF s \in Feeds THEN [tick EXCEPT !.fetched = @ \cup {s}] ELSE tick
            /\ UNCHANGED lastEntry
       ELSE /\ cyc' = [cyc EXCEPT ![s].pc = "failed"]
            /\ tick' = IF s \in Feeds
                       THEN [tick EXCEPT !.fetched = @ \cup {s}, !.failed = @ \cup {s}]
                       ELSE tick
            /\ lastEntry' = [lastEntry EXCEPT ![FeedOf(s)] = None]
    /\ UNCHANGED <<chatFeeds, feedSubs, feedLo, feedHi, cmd, fresh, dead, listing, hist>>

\* Lines 267-279: data = feedparser.parse(feed_url); no feed link -> return None.
\* tick keeps the books of the scheduled run_job only.
CheckFeedFetch(s, ok) ==
    /\ cyc[s].pc = "fetch"
    /\ IF ok
       THEN /\ cyc' = [cyc EXCEPT ![s].pc = "get",
                          ![s].entries = EntriesOf(feedLo[FeedOf(s)], feedHi[FeedOf(s)])]
            /\ tick' = IF s \in Feeds THEN [tick EXCEPT !.fetched = @ \cup {s}] ELSE tick
       ELSE /\ cyc' = [cyc EXCEPT ![s].pc = "failed"]
            /\ tick' = IF s \in Feeds
                       THEN [tick EXCEPT !.fetched = @ \cup {s}, !.failed = @ \cup {s}]
                       ELSE tick
    /\ UNCHANGED <<store, feedLo, feedHi, cmd, fresh, dead, listing, hist>>

\* Mutant: for entry in new_entries.
DeliveryOrderNewestFirst(new) == new

\* Line 283: for entry in reversed(new_entries).
DeliveryOrder(new) == Reverse(new)

\* The entry the task is delivering.
CurrentEntry(t) == DeliveryOrder(t.new)[t.k]

\* Where the task goes once it is through with one member: the next member of
\* this entry, the next entry (line 316 again), or line 345.
AfterMember(t) ==
    IF t.todo # {} THEN [t EXCEPT !.pc = "send"]
    ELSE IF t.k < Len(t.new) THEN [t EXCEPT !.k = @ + 1, !.pc = "members"]
    ELSE [t EXCEPT !.pc = "exists"]

\* Lines 280-282: last_entry = r.get(last_entry_hash); new_entries = get_new_entries(...).
CheckFeedDiff(s) ==
    /\ cyc[s].pc = "get"
    /\ LET last == lastEntry[FeedOf(s)]
           new == GetNewEntries(cyc[s].entries, last)
       IN  cyc' = [cyc EXCEPT ![s].last = last, ![s].new = new, ![s].k = 1,
                              ![s].pc = IF new = <<>> THEN "exists" ELSE "members"]
    /\ UNCHANGED <<store, feedLo, feedHi, cmd, tick, fresh, dead, listing, hist>>

\* Mutant: the entry goes to one member of the subscriber set only.
CheckFeedMembersOne(s) ==
    /\ cyc[s].pc = "members"
    /\ LET subs == feedSubs[FeedOf(s)]
           one == IF subs = {} THEN {} ELSE {CHOOSE m \in subs : TRUE}
       IN  cyc' = [cyc EXCEPT ![s] = AfterMember([cyc[s] EXCEPT !.todo = one])]
    /\ UNCHANGED <<store, feedLo, feedHi, cmd, tick, fresh, dead, listing, hist>>

\* Line 316: for member in r.smembers(key).
CheckFeedMembers(s) ==
    /\ cyc[s].pc = "members"
    /\ cyc' = [cyc EXCEPT ![s] = AfterMember([cyc[s] EXCEPT !.todo = feedSubs[FeedOf(s)]])]
    /\ UNCHANGED <<store, feedLo, feedHi, cmd, tick, fresh, dead, listing, hist>>

\* Lines 317-343: bot.sendMessage(chat_id=member, ...) and the except clause
\* chosen by what it raises.
CheckFeedSend(s, m, outcome) ==
    /\ cyc[s].pc = "send"
    /\ m \in cyc[s].todo
    /\ outcome = "Migrated" => m \in DOMAIN NewChatId
    /\ LET n == CurrentEntry(cyc[s]).num
           t == [cyc[s] EXCEPT !.member = m, !.todo = @ \ {m},
                               !.sent = Append(@, <<m, n, "first">>)]
       IN  /\ cyc' = [cyc EXCEPT ![s] =
                   CASE outcome = "Unauthorized" ->
                           [t EXCEPT !.pc = "unauth_srem",
                                     !.unauth = @ \cup {<<m, feedSubs[FeedOf(s)] = {m}>>}]
                     [] outcome = "Migrated" ->
                           [t EXCEPT !.pc = "mig_srem", !.mig = @ \cup {<<m, n>>}]
                     [] outcome = "TimedOut" -> [t EXCEPT !.pc = "timed_out"]
                     [] outcome = "BadRequest" -> [t EXCEPT !.pc = "bad_request"]
                     [] OTHER -> AfterMember(t)]
           /\ hist' = Logged(hist, <<m, FeedOf(s), n>>)
    /\ dead' = IF outcome = "Migrated" THEN dead \cup {m} ELSE dead
    /\ UNCHANGED <<store, feedLo, feedHi, cmd, tick, fresh, listing>>

\* Line 326: r.srem(key, member).
CheckFeedUnauthRemSub(s) ==
    /\ cyc[s].pc = "unauth_srem"
    /\ feedSubs' = [feedSubs EXCEPT ![FeedOf(s)] = @ \ {cyc[s].member}]
    /\ cyc' = [cyc EXCEPT ![s].pc = "unauth_del"]
    /\ UNCHANGED <<chatFeeds, lastEntry, feedLo, feedHi, cmd, tick, fresh, dead, listing, hist>>

\* Mutant: the Unauthorized handler without its line 327.
CheckFeedUnauthDelChatSkipped(s) ==
    /\ cyc[s].pc = "unauth_del"
    /\ cyc' = [cyc EXCEPT ![s] = AfterMember(cyc[s])]
    /\ UNCHANGED <<store, feedLo, feedHi, cmd, tick, fresh, dead, listing, hist>>

\* Line 327: r.delete(feed_hash.format(member)).
CheckFeedUnauthDelChat(s) ==
    /\ cyc[s].pc = "unauth_del"
    /\ chatFeeds' = [chatFeeds EXCEPT ![cyc[s].member] = {}]
    /\ cyc' = [cyc EXCEPT ![s] = AfterMember(cyc[s])]
    /\ UNCHANGED <<feedSubs, lastEntry, feedLo, feedHi, cmd, tick, fresh, dead, listing, hist>>

\* Line 331: r.srem(key, member).
CheckFeedMigRemSub(s) ==
    /\ cyc[s].pc = "mig_srem"
    /\ feedSubs' = [feedSubs EXCEPT ![FeedOf(s)] = @ \ {cyc[s].member}]
    /\ cyc' = [cyc EXCEPT ![s].pc = "mig_sadd"]
    /\ UNCHANGED <<chatFeeds, lastEntry, feedLo, feedHi, cmd, tick, fresh, dead, listing, hist>>

\* Line 332: r.sadd(key, new_chat_id).
CheckFeedMigAddSub(s) ==
    /\ cyc[s].pc = "mig_sadd"
    /\ feedSubs' = [feedSubs EXCEPT ![FeedOf(s)] = @ \cup {NewChatId[cyc[s].member]}]
    /\ cyc' = [cyc EXCEPT ![s].pc = "mig_rename"]
    /\ UNCHANGED <<chatFeeds, lastEntry, feedLo, feedHi, cmd, tick, fresh, dead, listing, hist>>

\* Line 333: r.rename(old chat key, new chat key).  RENAME of a key that does
\* not exist raises ResponseError, which nothing in check_feed catches.
CheckFeedMigRename(s) ==
    /\ cyc[s].pc = "mig_rename"
    /\ LET old == cyc[s].member
           new == NewChatId[old]
       IN  IF chatFeeds[old] = {}
           THEN /\ cyc' = [cyc EXCEPT ![s].pc = "aborted"]
                /\ UNCHANGED chatFeeds
           ELSE /\ chatFeeds' = [chatFeeds EXCEPT ![new] = chatFeeds[old], ![old] = {}]
                /\ cyc' = [cyc EXCEPT ![s].pc = "mig_send"]
    /\ UNCHANGED <<feedSubs, lastEntry, feedLo, feedHi, cmd, tick, fresh, dead, listing, hist>>

\* Line 335: the chat_id the second sendMessage is addressed to.
RetryRecipient(member, new_chat_id) == member

\* Lines 334-339: the second sendMessage, inside the except clause: whatever
\* it raises leaves check_feed.
CheckFeedMigSend(s, outcome) ==
    /\ cyc[s].pc = "mig_send"
    /\ LET to == RetryRecipient(cyc[s].member, NewChatId[cyc[s].member])
           n == CurrentEntry(cyc[s]).num
           t == [cyc[s] EXCEPT !.sent = Append(@, <<to, n, "retry">>)]
       IN  /\ cyc' = [cyc EXCEPT ![s] = IF outcome = "Success" THEN AfterMember(t)
                                        ELSE [t EXCEPT !.pc = "aborted"]]
           /\ hist' = Logged(hist, <<to, FeedOf(s), n>>)
    /\ UNCHANGED <<store, feedLo, feedHi, cmd, tick, fresh, dead, listing>>

\* Mutant: TimedOut handled as Unauthorized is, by dropping the subscriber.
CheckFeedTimedOutDrops(s) ==
    /\ cyc[s].pc = "timed_out"
    /\ feedSubs' = [feedSubs EXCEPT ![FeedOf(s)] = @ \ {cyc[s].member}]
    /\ cyc' = [cyc EXCEPT ![s] = AfterMember(cyc[s])]
    /\ UNCHANGED <<chatFeeds, lastEntry, feedLo, feedHi, cmd, tick, fresh, dead, listing, hist>>

\* Lines 340-341: except telegram.error.TimedOut: pass.
CheckFeedTimedOut(s) ==
    /\ cyc[s].pc = "timed_out"
    /\ cyc' = [cyc EXCEPT ![s] = AfterMember(cyc[s])]
    /\ UNCHANGED <<store, feedLo, feedHi, cmd, tick, fresh, dead, listing, hist>>

\* Lines 342-343: except telegram.error.BadRequest: logger.error(exception).
CheckFeedBadRequest(s) ==
    /\ cyc[s].pc = "bad_request"
    /\ cyc' = [cyc EXCEPT ![s] = AfterMember(cyc[s])]
    /\ UNCHANGED <<store, feedLo, feedHi, cmd, tick, fresh, dead, listing, hist>>

\* Lines 345 and 350: if not r.exists(key) ... ; if new_entries ...
CheckFeedExists(s) ==
    /\ cyc[s].pc = "exists"
    /\ cyc' = [cyc EXCEPT ![s].pc = IF feedSubs[FeedOf(s)] = {} THEN "del_marker"
                                    ELSE IF cyc[s].new # <<>> THEN "set_marker"
                                    ELSE "done"]
    /\ UNCHANGED <<store, feedLo, feedHi, cmd, tick, fresh, dead, listing, hist>>

\* Lines 346-347: r.delete(last_entry_hash); return.
CheckFeedDelMarker(s) ==
    /\ cyc[s].pc = "del_marker"
    /\ lastEntry' = [lastEntry EXCEPT ![FeedOf(s)] = None]
    /\ cyc' = [cyc EXCEPT ![s].pc = "done"]
    /\ UNCHANGED <<chatFeeds, feedSubs, feedLo, feedHi, cmd, tick, fresh, dead, listing, hist>>

\* Mutant: the Marker taken from new_entries[-1].
NewLastEntryOldest(new) == Identifier(new[Len(new)])

\* Lines 351-354: the Marker a cycle stores.
NewLastEntry(new) == Identifier(new[1])

\* Mutant: the Marker written only when it names a newer entry than the one
\* stored.
CheckFeedSetMarkerIfNewer(s) ==
    /\ cyc[s].pc = "set_marker"
    /\ lastEntry' = IF lastEntry[FeedOf(s)][2] > NewLastEntry(cyc[s].new)[2]
                    THEN lastEntry
                    ELSE [lastEntry EXCEPT ![FeedOf(s)] = NewLastEntry(cyc[s].new)]
    /\ cyc' = [cyc EXCEPT ![s].pc = "done"]
    /\ UNCHANGED <<chatFeeds, feedSubs, feedLo, feedHi, cmd, tick, fresh, dead, listing, hist>>

\* Line 355: r.set(last_entry_hash, new_last_entry).
CheckFeedSetMarker(s) ==
    /\ cyc[s].pc = "set_marker"
    /\ lastEntry' = [lastEntry EXCEPT ![FeedOf(s)] = NewLastEntry(cyc[s].new)]
    /\ cyc' = [cyc EXCEPT ![s].pc = "done"]
    /\ UNCHANGED <<chatFeeds, feedSubs, feedLo, feedHi, cmd, tick, fresh, dead, listing, hist>>

Ended(t) == t.pc \in {"done", "failed", "aborted"}

\* The task ends; the last task of a scheduled run_job closes its books.
CheckFeedReturn(s) ==
    /\ Ended(cyc[s])
    /\ cyc' = [cyc EXCEPT ![s] = IdleCyc]
    /\ tick' = IF s \in Feeds /\ \A g \in Feeds \ {s} : cyc[g].pc = "idle"
               THEN IdleTick ELSE tick
    /\ fresh' = [fresh EXCEPT ![FeedOf(s)] = NoFresh]
    /\ UNCHANGED <<store, feedLo, feedHi, cmd, dead, listing, hist>>
----------------------------------------------------------------------------
(* Spec: both feeds and every chat.  Commands and ticks run one after      *)
(* another; the check_feed tasks of one tick run concurrently with each    *)
(* other.  Feed f1 publishes up to MaxPosts entries, feed f2 at most one.  *)

Commanders == {"c1", "c2"}

Next ==
    \/ PublishEntry("f1", MaxPosts)
    \/ PublishEntry("f2", 1)
    \/ Quiet /\ \E c \in Commanders, arg \in Urls \cup {NoArg}, p \in Preludes :
                    SubscribeStart(c, arg, p)
    \/ \E ok \in BOOLEAN : SubscribeParse(ok)
    \/ SubscribeIsMember
    \/ SubscribeExists
    \/ SubscribeSet
    \/ SubscribeAddSub
    \/ SubscribeAddFeed
    \/ Quiet /\ \E c \in Commanders, arg \in DelArgs, p \in Preludes \ {"notadmin"} :
                    UnsubscribeStart(c, arg, p)
    \/ UnsubscribeMembers
    \/ UnsubscribeRemFeed
    \/ UnsubscribeRemSub
    \/ UnsubscribeCheckEmpty
    \/ UnsubscribeDelete
    \/ CmdReturn
    \/ Quiet /\ RunJob
    \/ \E f \in Feeds, ok \in BOOLEAN : CheckFeedFetch(f, ok)
    \/ \E f \in Feeds : CheckFeedDiff(f)
    \/ \E f \in Feeds : CheckFeedMembers(f)
    \/ \E f \in Feeds, m \in Chats, o \in Outcomes : CheckFeedSend(f, m, o)
    \/ \E f \in Feeds : CheckFeedUnauthRemSub(f)
    \/ \E f \in Feeds : CheckFeedUnauthDelChat(f)
    \/ \E f \in Feeds : CheckFeedMigRemSub(f)
    \/ \E f \in Feeds : CheckFeedMigAddSub(f)
    \/ \E f \in Feeds : CheckFeedMigRename(f)
    \/ \E f \in Feeds, o \in Outcomes : CheckFeedMigSend(f, o)
    \/ \E f \in Feeds : CheckFeedTimedOut(f)
    \/ \E f \in Feeds : CheckFeedBadRequest(f)
    \/ \E f \in Feeds : CheckFeedExists(f)
    \/ \E f \in Feeds : CheckFeedDelMarker(f)
    \/ \E f \in Feeds : CheckFeedSetMarker(f)
    \/ \E f \in Feeds : CheckFeedReturn(f)

Spec == Init /\ [][Next]_vars

----------------------------------------------------------------------------
(* SpecDiff: the single feed f1, which publishes up to MaxEntries entries  *)
(* and drops old ones, and the chats that subscribe to it.                 *)

NextDiff ==
    \/ PublishEntry("f1", MaxEntries)
    \/ TrimFeed("f1")
    \/ Quiet /\ \E c \in Commanders, arg \in {"f1", "f1-moved"} : SubscribeStart(c, arg, "ok")
    \/ \E ok \in BOOLEAN : SubscribeParse(ok)
    \/ SubscribeIsMember
    \/ SubscribeExists
    \/ SubscribeSet
    \/ SubscribeAddSub
    \/ SubscribeAddFeed
    \/ Quiet /\ \E c \in Commanders, n \in Positions : UnsubscribeStart(c, <<"int", n>>, "ok")
    \/ UnsubscribeMembers
    \/ UnsubscribeRemFeed
    \/ UnsubscribeRemSub
    \/ UnsubscribeCheckEmpty
    \/ UnsubscribeDelete
    \/ CmdReturn
    \/ Quiet /\ RunJob
    \/ \E ok \in BOOLEAN : CheckFeedFetch("f1", ok)
    \/ CheckFeedDiff("f1")
    \/ CheckFeedMembers("f1")
    \/ \E m \in Chats, o \in Outcomes : CheckFeedSend("f1", m, o)
    \/ CheckFeedUnauthRemSub("f1")
    \/ CheckFeedUnauthDelChat("f1")
    \/ CheckFeedMigRemSub("f1")
    \/ CheckFeedMigAddSub("f1")
    \/ CheckFeedMigRename("f1")
    \/ \E o \in Outcomes : CheckFeedMigSend("f1", o)
    \/ CheckFeedTimedOut("f1")
    \/ CheckFeedBadRequest("f1")
    \/ CheckFeedExists("f1")
    \/ CheckFeedDelMarker("f1")
    \/ CheckFeedSetMarker("f1")
    \/ CheckFeedReturn("f1")

SpecDiff == Init /\ [][NextDiff]_vars

----------------------------------------------------------------------------
(* SpecList: the three commands /sub, /rss and /del, one after another, on *)
(* both feeds; no poll cycle.  Feed f1 publishes one entry, f2 none.       *)

NextList ==
    \/ PublishEntry("f1", 1)
    \/ \E c \in Commanders, arg \in {"f1", "f2"} : SubscribeStart(c, arg, "ok")
    \/ SubscribeParse(TRUE)
    \/ SubscribeIsMember
    \/ SubscribeExists
    \/ SubscribeSet
    \/ SubscribeAddSub
    \/ SubscribeAddFeed
    \/ \E c \in Commanders, p \in {"ok", "denied", "nochannel"} : ListStart(c, p)
    \/ ListMembers
    \/ \E c \in Commanders, n \in Positions : UnsubscribeStart(c, <<"int", n>>, "ok")
    \/ UnsubscribeMembers
    \/ UnsubscribeRemFeed
    \/ UnsubscribeRemSub
    \/ UnsubscribeCheckEmpty
    \/ UnsubscribeDelete
    \/ CmdReturn

SpecList == Init /\ [][NextList]_vars

----------------------------------------------------------------------------
(* SpecOnce: the single feed f1 polled by the scheduled run_job only, one  *)
(* cycle after another, with every sendMessage call logged.  Every Send    *)
(* succeeds, and the feed drops no entry that the Marker names.            *)

NextOnce ==
    \/ PublishEntry("f1", MaxEntries)
    \/ TrimOlder("f1")
    \/ Quiet /\ \E c \in Commanders : SubscribeStart(c, "f1", "ok")
    \/ SubscribeParse(TRUE)
    \/ SubscribeIsMember
    \/ SubscribeExists
    \/ SubscribeSet
    \/ SubscribeAddSub
    \/ SubscribeAddFeed
    \/ Quiet /\ \E c \in Commanders : UnsubscribeStart(c, <<"int", 1>>, "ok")
    \/ UnsubscribeMembers
    \/ UnsubscribeRemFeed
    \/ UnsubscribeRemSub
    \/ UnsubscribeCheckEmpty
    \/ UnsubscribeDelete
    \/ CmdReturn
    \/ Quiet /\ RunJob
    \/ \E ok \in BOOLEAN : CheckFeedFetch("f1", ok)
    \/ CheckFeedDiff("f1")
    \/ CheckFeedMembers("f1")
    \/ \E m \in Chats : CheckFeedSend("f1", m, "Success")
    \/ CheckFeedExists("f1")
    \/ CheckFeedSetMarker("f1")
    \/ CheckFeedReturn("f1")

SpecOnce == InitLogged /\ [][NextOnce]_vars

----------------------------------------------------------------------------
(* SpecRace: the single feed f1 polled by the scheduled run_job and by     *)
(* /sync at once: check_feed is @run_async, so the two tasks of the feed   *)
(* interleave step by step.  Every fetch and every Send succeeds.          *)

RaceSlots == {"f1", SyncSlot["f1"]}

NextRace ==
    \/ PublishEntry("f1", MaxEntries)
    \/ Quiet /\ \E c \in Commanders : SubscribeStart(c, "f1", "ok")
    \/ SubscribeParse(TRUE)
    \/ SubscribeIsMember
    \/ SubscribeExists
    \/ SubscribeSet
    \/ SubscribeAddSub
    \/ SubscribeAddFeed
    \/ CmdReturn
    \/ cmd.pc = "idle" /\ RunJob
    \/ cmd.pc = "idle" /\ RunJobManually
    \/ \E s \in RaceSlots : CheckFeedFetch(s, TRUE)
    \/ \E s \in RaceSlots : CheckFeedDiff(s)
    \/ \E s \in RaceSlots : CheckFeedMembers(s)
    \/ \E s \in RaceSlots, m \in Chats : CheckFeedSend(s, m, "Success")
    \/ \E s \in RaceSlots : CheckFeedExists(s)
    \/ \E s \in RaceSlots : CheckFeedSetMarker(s)
    \/ \E s \in RaceSlots : CheckFeedReturn(s)

SpecRace == InitLogged /\ [][NextRace]_vars

----------------------------------------------------------------------------
(* SpecLive: the single feed f1, which publishes up to MaxEntries entries  *)
(* and drops old ones but not the one the Marker names; chat c2, which     *)
(* subscribes and never unsubscribes, and chat c1, which does both.  A     *)
(* Send to c2 succeeds; a Send to c1 may raise anything.  The job queue    *)
(* fires run_job every 60 seconds, so a tick is taken again and again;     *)
(* handlers and check_feed tasks run to their end; and the fetch of f1     *)
(* does not fail for ever.                                                 *)

CmdStep ==
    \/ \E ok \in BOOLEAN : SubscribeParse(ok)
    \/ SubscribeIsMember
    \/ SubscribeExists
    \/ SubscribeSet
    \/ SubscribeAddSub
    \/ SubscribeAddFeed
    \/ UnsubscribeMembers
    \/ UnsubscribeRemFeed
    \/ UnsubscribeRemSub
    \/ UnsubscribeCheckEmpty
    \/ UnsubscribeDelete
    \/ CmdReturn

LiveTaskStep ==
    \/ \E ok \in BOOLEAN : CheckFeedFetch("f1", ok)
    \/ CheckFeedDiff("f1")
    \/ CheckFeedMembers("f1")
    \/ \E m \in Chats, o \in Outcomes :
           (m = "c2" => o = "Success") /\ CheckFeedSend("f1", m, o)
    \/ CheckFeedUnauthRemSub("f1")
    \/ CheckFeedUnauthDelChat("f1")
    \/ CheckFeedMigRemSub("f1")
    \/ CheckFeedMigAddSub("f1")
    \/ CheckFeedMigRename("f1")
    \/ \E o \in Outcomes : CheckFeedMigSend("f1", o)
    \/ CheckFeedTimedOut("f1")
    \/ CheckFeedBadRequest("f1")
    \/ CheckFeedExists("f1")
    \/ CheckFeedDelMarker("f1")
    \/ CheckFeedSetMarker("f1")
    \/ CheckFeedReturn("f1")

NextLive ==
    \/ PublishEntry("f1", MaxEntries)
    \/ TrimOlder("f1")
    \/ Quiet /\ \E c \in Commanders : SubscribeStart(c, "f1", "ok")
    \/ Quiet /\ UnsubscribeStart("c1", <<"int", 1>>, "ok")
    \/ CmdStep
    \/ Quiet /\ RunJob
    \/ LiveTaskStep

SpecLive ==
    /\ Init /\ [][NextLive]_vars
    /\ SF_vars(Quiet /\ RunJob)
    /\ WF_vars(CmdStep)
    /\ WF_vars(LiveTaskStep)
    /\ SF_vars(CheckFeedFetch("f1", TRUE))

----------------------------------------------------------------------------
(* Properties of the subscription store                                    *)

\* C1: whenever no command and no poll cycle is in flight, a feed is in a
\* chat's feed set iff the chat is in the feed's subscriber set.
C1_BidirectionalConsistency ==
    Quiet => \A c \in Chats, f \in Feeds : f \in chatFeeds[c] <=> c \in feedSubs[f]

\* C2: whenever no command and no poll cycle is in flight, a feed has a
\* Marker iff it has at least one subscriber.
C2_MarkerIffSubscribers ==
    Quiet => \A f \in Feeds : lastEntry[f] # None <=> feedSubs[f] # {}

\* C3: when a check_feed task ends, every chat for which one of its Sends
\* raised Unauthorized has no feed set and is not a subscriber of the feed,
\* and if it was the feed's only subscriber the feed has no Marker.
C3_UnauthorizedCascade ==
    \A f \in Feeds : Ended(cyc[f]) =>
        \A u \in cyc[f].unauth :
            /\ chatFeeds[u[1]] = {}
            /\ u[1] \notin feedSubs[f]
            /\ u[2] => lastEntry[f] = None

\* A cycle has ended in which the only subscriber of the feed was Unauthorized.
C3_Witness ==
    \E f \in Feeds : cyc[f].pc = "done" /\ \E u \in cyc[f].unauth : u[2]

\* The retry Sends of entry n made by task t.
Retries(t, n) == {j \in DOMAIN t.sent : t.sent[j][2] = n /\ t.sent[j][3] = "retry"}

\* C4: when a check_feed task ends, for every Send of an entry to a chat C
\* that raised ChatMigrated(C'): C' is a subscriber of the feed and C is not,
\* C's feed set is stored under C', and exactly one more Send of that entry
\* was made, addressed to C'.
C4_MigrationRetry ==
    \A f \in Feeds : Ended(cyc[f]) =>
        \A g \in cyc[f].mig :
            LET old == g[1]
                new == NewChatId[old]
            IN  /\ old \notin feedSubs[f] /\ new \in feedSubs[f]
                /\ chatFeeds[old] = {} /\ f \in chatFeeds[new]
                /\ Cardinality(Retries(cyc[f], g[2])) = 1
                /\ \A j \in Retries(cyc[f], g[2]) : cyc[f].sent[j][1] = new

\* C7: a /sub whose url resolves to a feed the chat is already subscribed to
\* answers "already subscribed" and leaves the store as it found it.
C7_SubscribeIdempotent ==
    (cmd.op = "sub" /\ cmd.pc = "done" /\ cmd.href # NoFeed
        /\ cmd.href \in cmd.pre[1][cmd.chat])
    => (cmd.reply = "AlreadySubscribed" /\ store = cmd.pre)

\* A second /sub, made through the redirecting url, has answered.
C7_Witness ==
    /\ cmd.op = "sub" /\ cmd.pc = "done" /\ cmd.url = "f1-moved" /\ cmd.href = "f1"
    /\ "f1" \in cmd.pre[1][cmd.chat]

OutOfRange == {"NotPositive", "TooHigh"}

\* C8: a /del n with n < 1 or n above the number of the chat's subscriptions
\* answers with an out-of-range error and leaves the store as it found it.
C8_UnsubscribeBounds ==
    (cmd.op = "del" /\ cmd.pc = "done" /\ cmd.valid
        /\ (cmd.n < 1 \/ cmd.n > Cardinality(cmd.pre[1][cmd.chat])))
    => (cmd.reply \in OutOfRange /\ store = cmd.pre)

\* /del 0 and /del N+1 have answered for a chat with N >= 1 subscriptions.
C8_Witness ==
    /\ cmd.op = "del" /\ cmd.pc = "done" /\ cmd.valid
    /\ cmd.pre[1][cmd.chat] # {}
    /\ cmd.n = 0 \/ cmd.n = Cardinality(cmd.pre[1][cmd.chat]) + 1

\* The steps of the check_feed task in slot f.
TaskStep(f) ==
    \/ \E ok \in BOOLEAN : CheckFeedFetch(f, ok)
    \/ CheckFeedDiff(f)
    \/ CheckFeedMembers(f)
    \/ \E m \in Chats, o \in Outcomes : CheckFeedSend(f, m, o)
    \/ CheckFeedUnauthRemSub(f)
    \/ CheckFeedUnauthDelChat(f)
    \/ CheckFeedMigRemSub(f)
    \/ CheckFeedMigAddSub(f)
    \/ CheckFeedMigRename(f)
    \/ \E o \in Outcomes : CheckFeedMigSend(f, o)
    \/ CheckFeedTimedOut(f)
    \/ CheckFeedBadRequest(f)
    \/ CheckFeedExists(f)
    \/ CheckFeedDelMarker(f)
    \/ CheckFeedSetMarker(f)
    \/ CheckFeedReturn(f)

----------------------------------------------------------------------------
(* Properties of the diff and of delivery                                  *)

\* The numbers of the entries task t has sent to chat c, in the order sent.
SentTo(t, c) ==
    LET to == SelectSeq(t.sent, LAMBDA x : x[1] = c)
    IN  [j \in DOMAIN to |-> to[j][2]]

\* The positions of the fetched entries whose identifier is the Marker read.
MarkerAt(t) == {k \in DOMAIN t.entries : Identifier(t.entries[k]) = t.last}

\* Entries e(k-1), ..., e0 of e0..e(n-1), by number.
NewerThan(entries, k) == [j \in 1 .. (k - 1) |-> entries[k - j].num]

\* What C5 asserts of a cycle that read the Marker of entry e_k: every
\* subscriber was sent exactly e(k-1), ..., e0 in that order, nobody else was
\* sent anything, and the Marker is now the identifier of e0.
DiffDelivered(f) ==
    LET t == cyc[f]
        k == SetMin(MarkerAt(t))
    IN  /\ \A c \in feedSubs[f] : SentTo(t, c) = NewerThan(t.entries, k)
        /\ \A j \in DOMAIN t.sent : t.sent[j][1] \in feedSubs[f]
        /\ lastEntry[f] = Identifier(t.entries[1])

----------------------------------------------------------------------------
(* Properties of a tick                                                    *)

\* C9: while a tick is under way in which the fetch of feed F1 has failed,
\* the task of every other feed F2 of the snapshot is still there and can take
\* its next step, or has returned after fetching F2; and when it is done it
\* has sent the new entries of F2 to F2's subscribers and advanced F2's Marker.
C9_FeedIsolation ==
    \A f1, f2 \in Feeds :
        (f1 # f2 /\ f1 \in tick.failed /\ f2 \in tick.keys) =>
            /\ cyc[f2].pc = "idle" => f2 \in tick.fetched
            /\ cyc[f2].pc # "idle" => ENABLED TaskStep(f2)
            /\ (cyc[f2].pc = "done" /\ MarkerAt(cyc[f2]) # {}
                    /\ cyc[f2].unauth = {} /\ cyc[f2].mig = {}) => DiffDelivered(f2)

\* The fetch of f2 has failed, and in the same tick the task of f1 has sent a
\* new entry and advanced the Marker of f1.
C9_Witness ==
    /\ "f2" \in tick.failed
    /\ cyc["f1"].pc = "done" /\ cyc["f1"].sent # <<>>
    /\ cyc["f1"].unauth = {} /\ cyc["f1"].mig = {}
    /\ lastEntry["f1"] = Identifier(cyc["f1"].entries[1])

\* C10: the step in which the fetch of feed F fails, and the return that
\* follows it, change no key of the store; the task has sent nothing; F still
\* has its subscribers, so it is a key of the next run_job, and run_job starts
\* a check_feed, which begins by fetching, for every key.
C10_FetchFailureFrame ==
    [][\A f \in Feeds :
          /\ (cyc[f].pc = "fetch" /\ cyc'[f].pc = "failed")
                => (store' = store /\ cyc'[f].sent = <<>> /\ f \in SubsKeys')
          /\ (cyc[f].pc = "failed" /\ cyc'[f] # cyc[f])
                => (store' = store /\ cyc'[f].pc = "idle" /\ f \in SubsKeys')
          /\ (cyc[f].pc = "idle" /\ cyc'[f].pc # "idle")
                => (cyc'[f].pc = "fetch" /\ f \in SubsKeys)
          /\ (tick.keys = {} /\ tick'.keys # {} /\ f \in SubsKeys)
                => cyc'[f].pc = "fetch"]_vars

\* The fetch of a feed that has a Marker and a subscriber has failed.
C10_Witness ==
    \E f \in Feeds : cyc[f].pc = "failed" /\ lastEntry[f] # None /\ feedSubs[f] # {}

----------------------------------------------------------------------------
(* Properties of delivery failures                                         *)

\* The numbers of the entries task t has made a Send of.
Attempted(t) == {t.sent[j][2] : j \in DOMAIN t.sent}

\* C11: a check_feed task that has begun to deliver is never cut short by
\* what a Send raises: it ends at its end-of-cycle Marker step, with a Send
\* made of every new entry.
C11_FailureContainment ==
    \A f \in Feeds :
        (Ended(cyc[f]) /\ cyc[f].sent # <<>>) =>
            /\ cyc[f].pc = "done"
            /\ \A k \in DOMAIN cyc[f].new : cyc[f].new[k].num \in Attempted(cyc[f])

\* C12: when a check_feed task is done, every chat for which one of its Sends
\* raised Unauthorized is in no feed's subscriber set and has no feed set,
\* and no feed it was the last subscriber of has a Marker.
C12_PurgeEveryFeed ==
    \A f \in Feeds : cyc[f].pc = "done" =>
        \A u \in cyc[f].unauth : \A g \in Feeds :
            /\ u[1] \notin feedSubs[g]
            /\ chatFeeds[u[1]] = {}
            /\ feedSubs[g] = {} => lastEntry[g] = None

\* C13: when a check_feed task in which no Send raised Unauthorized is done,
\* for every chat C for which one of its Sends raised ChatMigrated(C'): no
\* feed's subscriber set holds C, the feed set of C is stored under C', and
\* every feed in it has C' as a subscriber.
C13_RenameEveryFeed ==
    \A f \in Feeds : (cyc[f].pc = "done" /\ cyc[f].unauth = {}) =>
        \A g \in cyc[f].mig :
            LET old == g[1]
                new == NewChatId[old]
            IN  /\ chatFeeds[old] = {} /\ f \in chatFeeds[new]
                /\ \A h \in Feeds : old \notin feedSubs[h]
                /\ \A h \in chatFeeds[new] : new \in feedSubs[h]

\* A task in the except clause of TimedOut or of BadRequest.
Transient == {"timed_out", "bad_request"}

\* The Sends of entry n to chat c that task t has made.
SendsOf(t, c, n) == {j \in DOMAIN t.sent : t.sent[j][1] = c /\ t.sent[j][2] = n}

\* C14: the Send that raises TimedOut or BadRequest, and the except clause
\* that handles it, change no feed set and no subscriber set and make no
\* further Send; and no task makes a Send of an entry to a chat it has made
\* one to already, but for the one retry after a ChatMigrated.
C14_TransientFrame ==
    [][\A s \in Slots :
          /\ (cyc[s].pc = "send" /\ cyc'[s].pc \in Transient)
                => /\ chatFeeds' = chatFeeds /\ feedSubs' = feedSubs
                   /\ Cardinality(SendsOf(cyc'[s], cyc'[s].member,
                                          CurrentEntry(cyc'[s]).num)) = 1
          /\ (cyc[s].pc \in Transient /\ cyc'[s] # cyc[s])
                => /\ chatFeeds' = chatFeeds /\ feedSubs' = feedSubs
                   /\ cyc'[s].sent = cyc[s].sent
                   /\ cyc[s].member \notin cyc'[s].todo
          /\ Len(cyc'[s].sent) > Len(cyc[s].sent)
                => LET x == cyc'[s].sent[Len(cyc'[s].sent)]
                   IN  IF x[3] = "first" THEN SendsOf(cyc[s], x[1], x[2]) = {}
                       ELSE <<x[1], x[2]>> \in cyc[s].mig]_vars

\* The Send of a new entry to the second of two subscribers has raised
\* TimedOut or BadRequest.
C14_Witness ==
    \E f \in Feeds :
        /\ cyc[f].pc \in Transient /\ Len(cyc[f].sent) = 2
        /\ cyc[f].member \in feedSubs[f]
        /\ cyc[f].unauth = {} /\ cyc[f].mig = {}
        /\ Cardinality(feedSubs[f]) = 2

----------------------------------------------------------------------------
(* Properties of the Marker over several cycles                            *)

\* C16: a cycle that fetched a non-empty entry list none of whose identifiers
\* is the stored Marker (or found no Marker stored) sends nothing and leaves
\* the identifier of the newest fetched entry as the Marker.
C16_NoFloodReseed ==
    \A f \in Feeds :
        (cyc[f].pc = "done" /\ cyc[f].entries # <<>> /\ MarkerAt(cyc[f]) = {}
            /\ feedSubs[f] # {})
        => /\ cyc[f].sent = <<>>
           /\ lastEntry[f] = Identifier(cyc[f].entries[1])

\* C19: a /sub that found a Marker stored for the feed and answered "added"
\* has left that Marker as it was, so that the entries the feed has published
\* since the Marker was written are what the next cycle finds new.
C19_SubscribeKeepsMarker ==
    (cmd.op = "sub" /\ cmd.pc = "done" /\ cmd.reply = "Created" /\ ~cmd.cold)
    => /\ lastEntry[cmd.href] # None
       /\ lastEntry[cmd.href] = cmd.pre[3][cmd.href]
       /\ GetNewEntries(cmd.entries, lastEntry[cmd.href])
              = GetNewEntries(cmd.entries, cmd.pre[3][cmd.href])
       /\ cmd.pre[2][cmd.href] \subseteq feedSubs[cmd.href]

\* A second chat has subscribed to a feed whose Marker names the older of its
\* two entries: the newer one has not been delivered yet.
C19_Witness ==
    /\ cmd.op = "sub" /\ cmd.pc = "done" /\ cmd.reply = "Created" /\ ~cmd.cold
    /\ Len(cmd.entries) = 2
    /\ lastEntry[cmd.href] = Identifier(cmd.entries[2])
    /\ Cardinality(feedSubs[cmd.href]) = 2

----------------------------------------------------------------------------
(* Properties of /rss and /del                                             *)

\* C18: a /del n with 1 <= n <= N answers "removed" for one feed F of the
\* chat's feed set, has taken F out of the chat's feed set and the chat out
\* of F's subscriber set and nothing else out of any set, and has touched no
\* Marker but F's; if the last /rss was made by the same chat on the same
\* store, F is one of the feeds it showed.
C18_UnsubscribeByPosition ==
    (cmd.op = "del" /\ cmd.pc = "done" /\ cmd.valid
        /\ 1 <= cmd.n /\ cmd.n <= Cardinality(cmd.pre[1][cmd.chat]))
    => /\ cmd.reply = "Removed"
       /\ cmd.url \in cmd.pre[1][cmd.chat]
       /\ chatFeeds = [cmd.pre[1] EXCEPT ![cmd.chat] = @ \ {cmd.url}]
       /\ feedSubs = [cmd.pre[2] EXCEPT ![cmd.url] = @ \ {cmd.chat}]
       /\ \A g \in Feeds \ {cmd.url} : lastEntry[g] = cmd.pre[3][g]
       /\ (listing.chat = cmd.chat /\ listing.pre = cmd.pre)
             => \E k \in DOMAIN listing.shown : listing.shown[k] = cmd.url

\* /rss showed a chat its two feeds, and the /del n that followed on the
\* unchanged store has removed the feed /rss did not show as number n.
C18_Witness ==
    /\ cmd.op = "del" /\ cmd.pc = "done" /\ cmd.reply = "Removed"
    /\ listing.chat = cmd.chat /\ listing.pre = cmd.pre
    /\ Len(listing.shown) = 2
    /\ listing.shown[cmd.n] # cmd.url

----------------------------------------------------------------------------
(* Properties of the log of Sends                                          *)

\* C20: when the cycles of a feed run one after another, every Send succeeds
\* and the feed keeps the entry its Marker names, no entry is sent to a chat
\* twice, over all cycles; and a cycle that reads as Marker the identifier of
\* the newest entry it fetched sends nothing and leaves the Marker as it was.
C20_NoDuplicates ==
    /\ hist.twice = {}
    /\ \A f \in Feeds :
          (cyc[f].pc = "done" /\ cyc[f].entries # <<>>
              /\ cyc[f].last = Identifier(cyc[f].entries[1]))
          => (cyc[f].sent = <<>> /\ lastEntry[f] = cyc[f].last)

\* Two cycles have delivered entry 2 and then entry 3 to both subscribers,
\* and a third cycle over the unchanged feed has ended.
C20_Witness ==
    /\ cyc["f1"].pc = "done" /\ cyc["f1"].sent = <<>>
    /\ cyc["f1"].last = <<"id", 3>> /\ lastEntry["f1"] = <<"id", 3>>
    /\ hist.log = {<<c, "f1", n>> : c \in {"c1", "c2"}, n \in {2, 3}}

\* C17: each of two overlapping check_feed tasks of a feed acts on the Marker
\* it read itself: when it ends it has sent every subscriber exactly the
\* entries that are newer than that Marker in its own fetch, whatever the
\* other task has sent, and the Marker it writes is the identifier of the
\* newest entry of its own fetch, whatever Marker is stored by then.
C17_MarkerRace ==
    [][\A s \in Slots :
          /\ (cyc[s].pc # "done" /\ cyc'[s].pc = "done" /\ MarkerAt(cyc'[s]) # {})
                => \A c \in feedSubs'[FeedOf(s)] :
                       SentTo(cyc'[s], c)
                          = NewerThan(cyc'[s].entries, SetMin(MarkerAt(cyc'[s])))
          /\ (cyc[s].pc = "set_marker" /\ cyc'[s].pc = "done")
                => /\ lastEntry'[FeedOf(s)] = Identifier(cyc[s].entries[1])
                   /\ cyc[s].last # Identifier(cyc[s].entries[1])]_vars

\* The scheduled task and the /sync task of f1 have both ended; an entry has
\* been sent to the same chat twice; and the task that wrote the Marker last
\* has put the identifier of an older entry over that of a newer one.
C17_Witness ==
    LET a == cyc["f1"]
        b == cyc[SyncSlot["f1"]]
    IN  /\ a.pc = "done" /\ b.pc = "done" /\ a.new # <<>> /\ b.new # <<>>
        /\ a.last = b.last
        /\ hist.twice # {}
        /\ a.entries[1].num < b.entries[1].num
        /\ lastEntry["f1"] = Identifier(a.entries[1])

----------------------------------------------------------------------------
(* Liveness                                                                *)

\* The task of the scheduled run_job for feed f has made a Send of entry n to
\* chat c.
SentNow(c, f, n) == SendsOf(cyc[f], c, n) # {}

\* C15: if chat c2 is a subscriber of f1, the Marker of f1 names an entry of
\* f1 and f1 holds an entry n newer than that one, then a Send of entry n to
\* c2 is made, sooner or later.
C15_EventualDelivery ==
    \A n \in 1 .. MaxEntries :
        ("c2" \in feedSubs["f1"] /\ lastEntry["f1"] # None
            /\ feedLo["f1"] < lastEntry["f1"][2] /\ lastEntry["f1"][2] < n
            /\ n <= feedHi["f1"])
        ~> SentNow("c2", "f1", n)

\* A cycle in which the Send to the other subscriber raised Unauthorized has
\* sent c2 the entry published after the one the Marker named, and has ended.
C15_Witness ==
    /\ cyc["f1"].pc = "done" /\ cyc["f1"].last = <<"id", 1>>
    /\ cyc["f1"].unauth # {}
    /\ SentNow("c2", "f1", 2)
    /\ lastEntry["f1"] = <<"link", 2>>

====
